---------------------------- MODULE Spec2Model ----------------------------
(***************************************************************************)
(* Line-level reconciliation of a coverage report with a unified diff      *)
(* (services/comparison.py): FileComparisonTraverseManager, its two        *)
(* visitors, FileComparison's lazy memoized properties, and the            *)
(* change-detection cache of Comparison.                                   *)
(*                                                                         *)
(* Representation.                                                         *)
(*   - Python's None for an optional object is the empty tuple << >>, and  *)
(*     a present object x is << x >> (None / Some).                        *)
(*   - A raw line value stands for its class: "+" any text starting with   *)
(*     '+', "-" any text starting with '-', "u" any other text, and NoLine *)
(*     for Python's None ("no line").                                      *)
(*   - A numeric string of a hunk header is the tuple of its digits, so    *)
(*     "12" is <<1, 2>> and the empty string is << >>.                     *)
(*   - A report file is its _lines array; an element is the coverage type  *)
(*     of a line array ("h", "m", "p") or NoCov for an empty slot.         *)
(*   - A Counter is a function whose domain is the set of keys it holds.   *)
(***************************************************************************)
EXTENDS Integers, Sequences, FiniteSets, TLC

\* ------------------------------------------------------------------ bounds

\* Longest line buffer of a generated hunk.
MaxHunkLines == 2
\* Largest number of unchanged lines in front of the first hunk.
MaxGap == 1
\* Longest _lines array of a report file.
MaxFileLen == 3
\* Reads of change_summary / lines made on one FileComparison.
MaxReads == 2

\* File Comparisons built for the one file.
MaxBuilds == 2

\* Loop iterations explored beyond the forward-pass bound before the
\* exploration of a traversal that does not end is cut.
MaxOverrun == 2

\* Comparison objects built for the one pull request.
NumComparisons == 2
\* Property reads made on the Comparison whose reports are resolved.
MaxResolveCalls == 2
\* Entries of the reverse diff's commit list.
MaxCommits == 2
\* Processes that call the RefreshService for the one owner.
NumCallers == 2
\* Calls of is_refreshing / trigger_refresh made.
MaxRefreshCalls == 3
\* Reads of the diff documents made on one Comparison.
MaxFetchReads == 2

\* --------------------------------------------------------- program constants

MAX_DIFF_SIZE == 170

\* ------------------------------------------------------------------ values

None == << >>
Some(x) == << x >>

NoLine == "None"
NoCov == "none"

Range(s) == {s[i] : i \in DOMAIN s}

Max(a, b) == IF a >= b THEN a ELSE b
Min(a, b) == IF a <= b THEN a ELSE b

\* int(s) for a string of decimal digits (most significant digit first).
RECURSIVE int(_)
int(s) ==
    IF s = << >> THEN 0
    ELSE 10 * int(SubSeq(s, 1, Len(s) - 1)) + s[Len(s)]

\* str(n) for n >= 0: the decimal digits of n.
RECURSIVE str(_)
str(n) == IF n < 10 THEN << n >> ELSE Append(str(n \div 10), n % 10)

\* int(x or 1): an empty string is falsy in Python, "0" is not.
int_or_1(s) == IF s = << >> THEN 1 ELSE int(s)

_is_added(line_value) == line_value = "+"

\* Variant: no value is taken for a removed line.
_is_removed_never(line_value) == FALSE

_is_removed(line_value) == line_value = "-"

\* -------------------------------------------------------------- state

VARIABLES
    \* FileComparison fields
    base_file,                  \* None or Some(_lines)
    head_file,                  \* None or Some(_lines)
    diff_data,                  \* None or Some([segments |-> ...])
    src,                        \* full head source, << >> when not supplied
    bypass_max_diff,
    should_search_for_changes,  \* "True", "False" or "None"
    total_diff_length,
    \* cached_property slots: None while unset, Some(value) once computed
    calculated,                 \* _calculated_changes_and_lines
    cs_cache,                   \* change_summary
    lines_cache,                \* lines
    \* FileComparisonTraverseManager fields
    head_file_eof,
    base_file_eof,
    segments,                   \* the same list object as diff_data["segments"]
    base_ln,
    head_ln,
    \* visitors
    summary,                    \* CreateChangeSummaryVisitor.summary
    lines,                      \* CreateLineComparisonVisitor.lines
    \* control
    pc,                         \* "idle", "apply" (inside the while loop), "raised"
    reader,                     \* the property whose read started the pass
    \* observation
    orig_segments,              \* the segments as constructed
    popped,                     \* values taken from segment line buffers, in order
    n_iter,                     \* loop iterations executed
    last_event,                 \* the event of the latest iteration
    n_pass,                     \* reconciler passes started
    n_reads,                    \* property reads made
    returned,                   \* values the reads have returned, per property
    fc_built,                   \* File Comparisons get_file_comparison has built
    fc_first,                   \* None, or what the first File Comparison held
    \* the change-detection cache and the Comparisons of one pull request
    redis_value,                \* the bytes under the pull request's key, or None
    c_state,                    \* per Comparison: "new", "built", "files", "done", "raised"
    c_pullid,                   \* per Comparison: None or Some(pull id)
    c_files,                    \* per Comparison: the head report's file names
    c_changed,                  \* per Comparison: the files with coverage changes
    c_files_with_changes,       \* per Comparison: self._files_with_changes
    c_acc,                      \* per Comparison: files_with_changes of files()
    c_pos,                      \* per Comparison: File Comparisons yielded
    c_hints,                    \* per Comparison: hint given to each file yielded
    write_log,                  \* the redis.set calls made, in order
    c_probe,                    \* per Comparison: what the probe of __init__ met
    f_tasks,                    \* per Comparison: the two fetch tasks of the event loop
    f_call,                     \* per Comparison: whether a read waits in run_until_complete
    f_reader,                   \* per Comparison: the property being read
    f_memo,                     \* per Comparison: cached _fetch_comparison_and_reverse_comparison
    f_reads,                    \* per Comparison: reads made
    f_result,                   \* per Comparison: outcome of the last read
    f_order,                    \* per Comparison: tasks in the order they completed
    r_base_built,               \* what build_report_from_commit gives for the base commit
    r_head_built,               \* what build_report_from_commit gives for the head commit
    r_diff,                     \* the forward diff's entry for the file a.py
    r_rev_commits,              \* length of the reverse diff's commit list
    r_base_memo,                \* Comparison._base_report
    r_head_memo,                \* cached head_report
    r_unmerged_memo,            \* cached has_unmerged_base_commits
    r_last,                     \* the last property read and its outcome
    r_calls,                    \* property reads made
    r_fetches,                  \* build_report_from_commit calls made, per commit
    \* RefreshService: the 'refresh' hash entry of one owner and its callers
    q_record,                   \* None or Some(record) under the owner's id
    q_enqueued,                 \* refresh tasks enqueued so far (ids 1..q_enqueued)
    q_ready,                    \* the tasks that have become ready
    q_pc,                       \* per caller: "idle", "decode", "hdel", "refresh", "hset"
    q_op,                       \* per caller: the method called
    q_data,                     \* per caller: data_task, what hget returned
    q_task,                     \* per caller: the task its refresh() call enqueued
    q_ret,                      \* per caller: None or Some(result of is_refreshing)
    q_calls                     \* calls made

fcVars == << base_file, head_file, diff_data, src, bypass_max_diff,
             should_search_for_changes, total_diff_length,
             calculated, cs_cache, lines_cache >>
tmVars == << head_file_eof, base_file_eof, segments, base_ln, head_ln >>
visVars == << summary, lines >>
obsVars == << orig_segments, popped, n_iter, last_event, n_pass, n_reads,
              returned >>
cmpVars == << redis_value, c_state, c_pullid, c_files, c_changed,
              c_files_with_changes, c_acc, c_pos, c_hints, write_log, c_probe >>
fetchVars == << f_tasks, f_call, f_reader, f_memo, f_reads, f_result, f_order >>

builtVars == << fc_built, fc_first >>

fileVars == << fcVars, tmVars, visVars, pc, reader, obsVars, builtVars >>
resVars == << r_base_built, r_head_built, r_diff, r_rev_commits, r_base_memo,
              r_head_memo, r_unmerged_memo, r_last, r_calls, r_fetches >>

refreshVars == << q_record, q_enqueued, q_ready, q_pc, q_op, q_data, q_task,
                  q_ret, q_calls >>

vars == << fileVars, cmpVars, fetchVars, resVars, refreshVars >>


\* ------------------------------------------------------ segments and files

SegBaseOffset(seg) == int(seg.header[1])
SegBaseLen(seg) == int_or_1(seg.header[2])
SegHeadOffset(seg) == int(seg.header[3])
SegHeadLen(seg) == int_or_1(seg.header[4])

RECURSIVE TotalLines(_)
TotalLines(segs) ==
    IF segs = << >> THEN 0 ELSE Len(segs[1].lines) + TotalLines(Tail(segs))

RECURSIVE ConcatLines(_)
ConcatLines(segs) ==
    IF segs = << >> THEN << >> ELSE segs[1].lines \o ConcatLines(Tail(segs))

\* ReportFile.eof: the number of the last line of the report file, plus 1.
Eof(file) == IF file = None THEN 0 ELSE Len(file[1]) + 1

\* line_type(line[0]) of a line array: the model keeps the type itself.
line_type(line) == line

\* ----------------------------------------- FileComparisonTraverseManager

\* Variant: the base pointer starts at 1 whatever the first offset is.
InitBaseLn_one(segs) == 1

InitBaseLn(segs) == IF segs /= << >> THEN Min(1, SegBaseOffset(segs[1])) ELSE 1

InitHeadLn(segs) == IF segs /= << >> THEN Min(1, SegHeadOffset(segs[1])) ELSE 1

\* Variant: the traversal without source ends when either pointer reaches its
\* end of file.
traverse_finished_either ==
    IF segments /= << >> THEN FALSE
    ELSE IF src /= << >> THEN head_ln > Len(src)
    ELSE head_ln >= head_file_eof \/ base_ln >= base_file_eof

traverse_finished ==
    IF segments /= << >> THEN FALSE
    ELSE IF src /= << >> THEN head_ln > Len(src)
    ELSE head_ln >= head_file_eof /\ base_ln >= base_file_eof

traversing_diff(segs, bln, hln) ==
    IF segs = << >> THEN FALSE
    ELSE LET base_ln_within_offset ==
                 /\ SegBaseOffset(segs[1]) <= bln
                 /\ bln < SegBaseOffset(segs[1]) + SegBaseLen(segs[1])
             head_ln_within_offset ==
                 /\ SegHeadOffset(segs[1]) <= hln
                 /\ hln < SegHeadOffset(segs[1]) + SegHeadLen(segs[1])
         IN  base_ln_within_offset \/ head_ln_within_offset

\* pop_line raises IndexError: list.pop(0) of an empty line buffer, or
\* src[head_ln - 1] past the end of src.
pop_line_raises(segs, bln, hln) ==
    IF traversing_diff(segs, bln, hln) THEN segs[1].lines = << >>
    ELSE src /= << >> /\ hln - 1 >= Len(src)

\* The value pop_line returns (when it does not raise). src[-1] is Python's
\* last element.
pop_line_value(segs, bln, hln) ==
    IF traversing_diff(segs, bln, hln) THEN Head(segs[1].lines)
    ELSE IF src /= << >>
         THEN (IF hln - 1 < 0 THEN src[Len(src)] ELSE src[hln])
         ELSE NoLine

\* Variant: pop_line drops a segment as soon as its last line is taken.
pop_line_segments_retiring(segs, bln, hln) ==
    IF traversing_diff(segs, bln, hln)
    THEN (IF Tail(segs[1].lines) = << >> THEN Tail(segs)
          ELSE << [segs[1] EXCEPT !.lines = Tail(@)] >> \o Tail(segs))
    ELSE segs

\* The segment queue after pop_line.
pop_line_segments(segs, bln, hln) ==
    IF traversing_diff(segs, bln, hln)
    THEN << [segs[1] EXCEPT !.lines = Tail(@)] >> \o Tail(segs)
    ELSE segs

\* Variant: the base line number is handed over for an added line too.
EventBaseLn_always(line_value, bln) == Some(bln)

\* The line numbers handed to the visitors.
EventBaseLn(line_value, bln) == IF _is_added(line_value) THEN None ELSE Some(bln)

EventHeadLn(line_value, hln) == IF _is_removed(line_value) THEN None ELSE Some(hln)

\* Variant: a removed line advances both pointers.
Advance_removed_both(line_value, bln, hln) ==
    IF _is_added(line_value) THEN << bln, hln + 1 >>
    ELSE << bln + 1, hln + 1 >>

\* Variant: an unchanged line moves the head pointer by two.
Advance_head_by_two(line_value, bln, hln) ==
    IF _is_added(line_value) THEN << bln, hln + 1 >>
    ELSE IF _is_removed(line_value) THEN << bln + 1, hln >>
    ELSE << bln + 1, hln + 2 >>

\* The pointers after the advance: << base_ln, head_ln >>.
Advance(line_value, bln, hln) ==
    IF _is_added(line_value) THEN << bln, hln + 1 >>
    ELSE IF _is_removed(line_value) THEN << bln + 1, hln >>
    ELSE << bln + 1, hln + 1 >>

\* Variant: the first segment is retired whether or not its lines are used up.
Retire_unconditionally(segs) == IF segs /= << >> THEN Tail(segs) ELSE segs

\* The segment queue after the retirement check that ends an iteration.
Retire(segs) ==
    IF segs /= << >> /\ segs[1].lines = << >> THEN Tail(segs) ELSE segs

\* ------------------------------------------------------------- visitors

\* FileComparisonVisitor._get_line: the line array at ln, or NoCov.
_get_line(report_file, ln) ==
    IF report_file = None \/ ln = None THEN NoCov
    ELSE LET ls == report_file[1]
             i == ln[1] - 1
         IN  IF i >= Len(ls) \/ (i < 0 /\ -i > Len(ls)) THEN NoCov
             ELSE IF i < 0 THEN ls[Len(ls) + i + 1]
             ELSE ls[i + 1]

coverage_type_map(t) ==
    CASE t = "h" -> "hits" [] t = "m" -> "misses" [] t = "p" -> "partials"

EmptyCounter == [k \in {} |-> 0]

CounterGet(c, k) == IF k \in DOMAIN c THEN c[k] ELSE 0

CounterAdd(c, k, d) ==
    [x \in (DOMAIN c) \cup {k} |-> IF x = k THEN CounterGet(c, k) + d ELSE c[x]]

\* Variant: only the head line's category is counted.
_update_summary_head_only(sum, base_line, head_line) ==
    CounterAdd(sum, coverage_type_map(line_type(head_line)), 1)

_update_summary(sum, base_line, head_line) ==
    CounterAdd(CounterAdd(sum, coverage_type_map(line_type(base_line)), -1),
               coverage_type_map(line_type(head_line)), 1)

\* CreateChangeSummaryVisitor.__call__: the summary after the call.
ChangeSummaryCall(sum, e_base, e_head, value, is_diff) ==
    IF value \in {"+", "-"} THEN sum
    ELSE LET base_line == _get_line(base_file, e_base)
             head_line == _get_line(head_file, e_head)
         IN  IF base_line = NoCov \/ head_line = NoCov THEN sum
             ELSE IF line_type(base_line) = line_type(head_line) THEN sum
             ELSE _update_summary(sum, base_line, head_line)

LineComparison(base_line, head_line, e_base, e_head, value, is_diff) ==
    [base_line |-> base_line, head_line |-> head_line, base_ln |-> e_base,
     head_ln |-> e_head, value |-> value, is_diff |-> is_diff,
     added |-> _is_added(value), removed |-> _is_removed(value)]

\* LineComparison.number
number(lc) ==
    [base |-> IF ~lc.added THEN lc.base_ln ELSE None,
     head |-> IF ~lc.removed THEN lc.head_ln ELSE None]

\* LineComparison.coverage
coverage(lc) ==
    [base |-> IF lc.added \/ lc.base_line = NoCov THEN None
              ELSE Some(line_type(lc.base_line)),
     head |-> IF lc.removed \/ lc.head_line = NoCov THEN None
              ELSE Some(line_type(lc.head_line))]

\* Variant: a Line Comparison is made for an event without a value too.
LineComparisonCall_keeps_none(ls, e_base, e_head, value, is_diff) ==
    Append(ls, LineComparison(_get_line(base_file, e_base),
                              _get_line(head_file, e_head),
                              e_base, e_head, value, is_diff))

\* CreateLineComparisonVisitor.__call__: the lines after the call.
LineComparisonCall(ls, e_base, e_head, value, is_diff) ==
    IF value = NoLine THEN ls
    ELSE Append(ls, LineComparison(_get_line(base_file, e_base),
                                   _get_line(head_file, e_head),
                                   e_base, e_head, value, is_diff))


\* ------------------------------------------------- inputs of the model

RawDiffValues == {"+", "-", "u"}

HunkBodies == UNION {[1..n -> RawDiffValues] : n \in 1..MaxHunkLines}

SecondHunkBodies == {<< "+" >>, << "-" >>, << "-", "+" >>}

CountBase(ls) == Cardinality({i \in DOMAIN ls : ls[i] /= "+"})

CountHead(ls) == Cardinality({i \in DOMAIN ls : ls[i] /= "-"})

\* A length of 1 is left out of a hunk header ("@@ -5 +5 @@").
LenStr(n) == IF n = 1 THEN << >> ELSE str(n)

\* The hunk a diff program writes for the line buffer ls whose first line is
\* line b of the base text and line h of the head text: a side of length 0
\* is given the number of the line in front of it.
Hunk(b, h, ls) ==
    LET bl == CountBase(ls)
        hl == CountHead(ls)
    IN  [header |-> << str(IF bl = 0 THEN b - 1 ELSE b), LenStr(bl),
                       str(IF hl = 0 THEN h - 1 ELSE h), LenStr(hl) >>,
         lines |-> ls]

\* A segment without lines, at line o of both texts.
EmptySegment(o) == [header |-> << str(o), << >>, str(o), << >> >>, lines |-> << >>]

OneHunkLists == {<< Hunk(1 + g, 1 + g, ls) >> : g \in 0..MaxGap, ls \in HunkBodies}

\* Two hunks with one unchanged line between them. A hunk with offset 0 is
\* the whole of an added or removed file, and no second hunk follows it.
TwoHunkLists ==
    {<< Hunk(1 + g, 1 + g, ls),
        Hunk(2 + g + CountBase(ls), 2 + g + CountHead(ls), ls2) >> :
        g \in 0..MaxGap,
        ls \in {b \in HunkBodies : CountBase(b) > 0 /\ CountHead(b) > 0},
        ls2 \in SecondHunkBodies}

EmptySegmentLists ==
    {<< EmptySegment(o) >> : o \in 1..2}
        \cup {<< EmptySegment(2), Hunk(4, 4, << "-", "+" >>) >>,
              << Hunk(1, 1, << "u" >>), EmptySegment(3) >>}

SegmentLists == {<< >>} \cup OneHunkLists \cup TwoHunkLists \cup EmptySegmentLists

\* The number of head lines a segment list accounts for.
ImpliedHeadLen(segs) ==
    IF segs = << >> THEN 0
    ELSE LET s == segs[Len(segs)]
         IN  IF s.header[4] /= << >> /\ int(s.header[4]) = 0
             THEN SegHeadOffset(s)
             ELSE SegHeadOffset(s) + SegHeadLen(s) - 1

CovPatterns == {"A", "B"}

CovAt(p, i) ==
    IF p = "A" THEN << "h", "m", "p", NoCov >>[((i - 1) % 4) + 1]
    ELSE << "m", "h", "h", "p" >>[((i - 1) % 4) + 1]

\* A report file's _lines array of n lines.
CovLines(n, p) == [i \in 1..n |-> CovAt(p, i)]

BaseFiles == {None} \cup {Some(CovLines(n, "A")) : n \in 0..MaxFileLen}

HeadFiles == {None} \cup {Some(CovLines(n, p)) : n \in 0..MaxFileLen, p \in CovPatterns}

\* Full head source of n lines; line 1 starts with '-' or '+' in the kinds
\* "minus" and "plus".
SrcOf(n, kind) ==
    IF kind = "none" THEN << >>
    ELSE [i \in 1..n |-> IF i = 1 /\ kind = "minus" THEN "-"
                         ELSE IF i = 1 /\ kind = "plus" THEN "+"
                         ELSE "u"]

\* A hunk of n lines that rewrites line 1 and keeps the rest.
BigHunk(n) == Hunk(1, 1, [i \in 1..n |-> IF i = 1 THEN "-"
                                          ELSE IF i = 2 THEN "+" ELSE "u"])

TotalDiffLength(dd) == IF dd /= None /\ dd[1].segments /= << >>
                       THEN TotalLines(dd[1].segments) ELSE 0

\* FileComparison.__init__, before any property is read.
Constructed(bf, hf, dd, s, bypass, hint) ==
    /\ base_file = bf
    /\ head_file = hf
    /\ diff_data = dd
    /\ src = s
    /\ bypass_max_diff = bypass
    /\ should_search_for_changes = hint
    /\ total_diff_length = TotalDiffLength(dd)
    /\ calculated = None
    /\ cs_cache = None
    /\ lines_cache = None
    /\ head_file_eof = 0
    /\ base_file_eof = 0
    /\ segments = << >>
    /\ base_ln = 0
    /\ head_ln = 0
    /\ summary = EmptyCounter
    /\ lines = << >>
    /\ pc = "idle"
    /\ reader = "none"
    /\ orig_segments = (IF dd = None THEN << >> ELSE dd[1].segments)
    /\ popped = << >>
    /\ n_iter = 0
    /\ last_event = None
    /\ n_pass = 0
    /\ n_reads = 0
    /\ returned = [change_summary |-> {}, lines |-> {}]
    /\ fc_built = 1
    /\ fc_first = None

Hints == {"True", "False", "None"}

\* How FileComparison is built (its docstring): for the full comparison,
\* without source and with the max-diff truncation; for one file, with the
\* full head source and the truncation bypassed.
Modes == {[kind |-> "none", bypass |-> FALSE]}
             \cup {[kind |-> k, bypass |-> TRUE] : k \in {"plain", "minus", "plus"}}

\* The pairs of report files of a file that has diff data.
DiffFilePairs ==
    {<< None, Some(CovLines(MaxFileLen, "B")) >>,
     << Some(CovLines(MaxFileLen, "A")), Some(CovLines(MaxFileLen, "B")) >>,
     << Some(CovLines(MaxFileLen, "A")), Some(CovLines(MaxFileLen, "A")) >>}

\* A file without diff data.
InitNoDiff ==
    \E bf \in BaseFiles, hf \in HeadFiles, m \in Modes, hint \in Hints :
        Constructed(bf, hf, None, SrcOf(Max(Eof(hf) - 1, 0), m.kind),
                    m.bypass, hint)

\* A file with diff data.
InitDiff ==
    \E segs \in SegmentLists, fp \in DiffFilePairs, m \in Modes, hint \in Hints :
        Constructed(fp[1], fp[2], Some([segments |-> segs]),
                    SrcOf(Max(Eof(fp[2]) - 1, ImpliedHeadLen(segs)), m.kind),
                    m.bypass, hint)

\* A file whose diff is one hunk of about MAX_DIFF_SIZE lines.
InitBigDiff ==
    \E n \in {MAX_DIFF_SIZE, MAX_DIFF_SIZE + 1}, bypass \in BOOLEAN, hint \in Hints :
        Constructed(Some(CovLines(n - 1, "A")), Some(CovLines(n - 1, "B")),
                    Some([segments |-> << BigHunk(n) >>]), << >>, bypass, hint)

\* The hunk of a newly added file of n lines: base offset 0, every line '+'.
AddedHunk(n) == Hunk(1, 1, [i \in 1..n |-> "+"])

\* A newly added file: absent from the base report, every line hit.
InitAddedFile ==
    \E n \in 1..(MaxHunkLines + 1), m \in Modes, hint \in Hints :
        Constructed(None, Some([i \in 1..n |-> "h"]),
                    Some([segments |-> << AddedHunk(n) >>]),
                    SrcOf(n, m.kind), m.bypass, hint)

Comparisons == 1..NumComparisons

FileNames == {"a.py", "b.py", "c.py"}

\* The file names with diff data in the forward diff document.
DiffedFiles == {"a.py"}

\* No Comparison has been built and the cache holds nothing: the state of
\* the Comparison variables in which files of changed sets are compared.
ComparisonsNew(pullids, changed) ==
    /\ redis_value = None
    /\ c_state = [c \in Comparisons |-> "new"]
    /\ c_pullid = pullids
    /\ c_files = [c \in Comparisons |-> << "a.py", "b.py", "c.py" >>]
    /\ c_changed = changed
    /\ c_files_with_changes = [c \in Comparisons |-> None]
    /\ c_acc = [c \in Comparisons |-> << >>]
    /\ c_pos = [c \in Comparisons |-> 0]
    /\ c_hints = [c \in Comparisons |-> << >>]
    /\ write_log = << >>
    /\ c_probe = [c \in Comparisons |-> [kind |-> "unprobed", at |-> 0]]
    /\ f_tasks = [c \in Comparisons |-> [fwd |-> "none", rev |-> "none"]]
    /\ f_call = [c \in Comparisons |-> "idle"]
    /\ f_reader = [c \in Comparisons |-> "none"]
    /\ f_memo = [c \in Comparisons |-> None]
    /\ f_reads = [c \in Comparisons |-> 0]
    /\ f_result = [c \in Comparisons |-> [kind |-> "none"]]
    /\ f_order = [c \in Comparisons |-> << >>]

\* The reports and diff documents a Comparison resolves its properties
\* from, before any property is read.
Callers == 1..NumCallers

\* No call of the RefreshService is under way; the owner's entry of the
\* 'refresh' hash is rec, and n tasks were enqueued, those in ready done.
RefreshGiven(rec, n, ready) ==
    /\ q_record = rec
    /\ q_enqueued = n
    /\ q_ready = ready
    /\ q_pc = [p \in Callers |-> "idle"]
    /\ q_op = [p \in Callers |-> "none"]
    /\ q_data = [p \in Callers |-> None]
    /\ q_task = [p \in Callers |-> 0]
    /\ q_ret = [p \in Callers |-> None]
    /\ q_calls = 0

NoRefresh == RefreshGiven(None, 0, {})

ReportsGiven(base_built, head_built, diff, rev_commits) ==
    /\ r_base_built = base_built
    /\ r_head_built = head_built
    /\ r_diff = diff
    /\ r_rev_commits = rev_commits
    /\ r_base_memo = None
    /\ r_head_memo = None
    /\ r_unmerged_memo = None
    /\ r_last = [op |-> "none", kind |-> "none"]
    /\ r_calls = 0
    /\ r_fetches = [base |-> 0, head |-> 0]

NoReports == ReportsGiven(None, None, None, 0)

Init ==
    /\ NoReports
    /\ NoRefresh
    /\ InitNoDiff \/ InitDiff \/ InitBigDiff \/ InitAddedFile
    /\ ComparisonsNew([c \in Comparisons |-> None], [c \in Comparisons |-> {}])


\* ----------------------------------------------------- FileComparison

\* Variant: the condition as the docstring of FileComparison.__init__ gives
\* it, the pass running only for a hint of True.
RunsPass_docstring == diff_data /= None \/ should_search_for_changes = "True"

\* Variant: the hint alone decides, a diff does not force the pass.
RunsPass_hint_only == should_search_for_changes /= "False"

\* The condition under which _calculated_changes_and_lines applies the
\* visitors. diff_data, when present, is a non-empty dict and so is truthy.
RunsPass == diff_data /= None \/ should_search_for_changes /= "False"

\* The assertion of FileComparisonTraverseManager.__init__.
SrcAssertion(heof) == src /= << >> => heof - 1 <= Len(src)

\* Variant: a diff of exactly MAX_DIFF_SIZE lines is cut off too.
Truncated_at_limit == total_diff_length >= MAX_DIFF_SIZE /\ ~bypass_max_diff

\* lines resolves to None instead of the reconciled list.
Truncated == total_diff_length > MAX_DIFF_SIZE /\ ~bypass_max_diff

\* The largest line number a segment header names.
RECURSIVE MaxSegmentEnd(_)
MaxSegmentEnd(segs) ==
    IF segs = << >> THEN 0
    ELSE Max(Max(SegBaseOffset(segs[1]) + SegBaseLen(segs[1]),
                 SegHeadOffset(segs[1]) + SegHeadLen(segs[1])),
             MaxSegmentEnd(Tail(segs)))

\* The iterations a single forward pass can take: every segment line once
\* and every line number up to the last one named once.
IterationBound ==
    TotalLines(orig_segments) + Len(src) + base_file_eof + head_file_eof
        + MaxSegmentEnd(orig_segments) + 1

\* Variant: a plain property, which keeps nothing.
Memoized_never(v) == None

\* cached_property: the value the decorator keeps for the next read.
Memoized(v) == Some(v)

\* The read of property r returns v: the cached_property stores it.
Return(r, v) ==
    /\ returned' = [returned EXCEPT ![r] = @ \cup {v}]
    /\ IF r = "change_summary"
       THEN cs_cache' = Memoized(v) /\ UNCHANGED lines_cache
       ELSE lines_cache' = Memoized(v) /\ UNCHANGED cs_cache

\* What property r makes of the pair _calculated_changes_and_lines holds.
Project(r, calc) == IF r = "change_summary" THEN calc[1] ELSE Some(calc[2])

\* The first evaluation of _calculated_changes_and_lines, for the read of r:
\* the visitors are built and, if the pass runs, the traverse manager is
\* constructed and apply() entered.
BeginCalculation(r) ==
    LET segs == IF diff_data /= None THEN diff_data[1].segments ELSE << >>
        heof == Eof(head_file)
        beof == Eof(base_file)
    IN  /\ summary' = EmptyCounter
        /\ lines' = << >>
        /\ reader' = r
        /\ IF ~RunsPass
           THEN /\ calculated' = Memoized(<< EmptyCounter, << >> >>)
                /\ Return(r, Project(r, << EmptyCounter, << >> >>))
                /\ UNCHANGED << tmVars, pc, n_pass >>
           ELSE /\ n_pass' = n_pass + 1
                /\ head_file_eof' = heof
                /\ base_file_eof' = beof
                /\ segments' = segs
                /\ base_ln' = InitBaseLn(segs)
                /\ head_ln' = InitHeadLn(segs)
                /\ pc' = IF SrcAssertion(heof) THEN "apply" ELSE "raised"
                /\ UNCHANGED << calculated, cs_cache, lines_cache, returned >>

\* A read of the cached property change_summary.
ReadChangeSummary ==
    /\ pc = "idle"
    /\ n_reads < MaxReads
    /\ n_reads' = n_reads + 1
    /\ UNCHANGED << cmpVars, fetchVars, resVars, builtVars, refreshVars >>
    /\ UNCHANGED << base_file, head_file, diff_data, src, bypass_max_diff,
                    should_search_for_changes, total_diff_length,
                    orig_segments, popped, n_iter, last_event >>
    /\ IF cs_cache /= None
       THEN /\ returned' = [returned EXCEPT !.change_summary = @ \cup {cs_cache[1]}]
            /\ UNCHANGED << calculated, cs_cache, lines_cache, tmVars, visVars,
                            pc, reader, n_pass >>
       ELSE IF calculated /= None
       THEN /\ Return("change_summary", Project("change_summary", calculated[1]))
            /\ UNCHANGED << calculated, tmVars, visVars, pc, reader, n_pass >>
       ELSE BeginCalculation("change_summary")

\* A read of the cached property lines.
ReadLines ==
    /\ pc = "idle"
    /\ n_reads < MaxReads
    /\ n_reads' = n_reads + 1
    /\ UNCHANGED << cmpVars, fetchVars, resVars, builtVars, refreshVars >>
    /\ UNCHANGED << base_file, head_file, diff_data, src, bypass_max_diff,
                    should_search_for_changes, total_diff_length,
                    orig_segments, popped, n_iter, last_event >>
    /\ IF lines_cache /= None
       THEN /\ returned' = [returned EXCEPT !.lines = @ \cup {lines_cache[1]}]
            /\ UNCHANGED << calculated, cs_cache, lines_cache, tmVars, visVars,
                            pc, reader, n_pass >>
       ELSE IF Truncated
       THEN /\ Return("lines", None)
            /\ UNCHANGED << calculated, tmVars, visVars, pc, reader, n_pass >>
       ELSE IF calculated /= None
       THEN /\ Return("lines", Project("lines", calculated[1]))
            /\ UNCHANGED << calculated, tmVars, visVars, pc, reader, n_pass >>
       ELSE BeginCalculation("lines")

\* Variant: the visitors are registered the other way round.
Visitors_reversed == << "create_lines_visitor", "change_summary_visitor" >>

\* The visitors _calculated_changes_and_lines hands to apply(), in order.
Visitors == << "change_summary_visitor", "create_lines_visitor" >>

\* The calls the for loop of apply() makes for one line: each visitor in
\* turn, with the arguments built at its call. No call changes the pointers
\* or the segment queue, so every call is built from the same state.
VisitorCalls(line_value, segs, bln, hln) ==
    [i \in DOMAIN Visitors |->
        [visitor |-> Visitors[i],
         base_ln |-> EventBaseLn(line_value, bln),
         head_ln |-> EventHeadLn(line_value, hln),
         value |-> line_value,
         is_diff |-> traversing_diff(segs, bln, hln)]]

\* One iteration of the while loop of apply().
ApplyStep ==
    /\ pc = "apply"
    /\ ~traverse_finished
    /\ n_iter < IterationBound + MaxOverrun
    /\ UNCHANGED << cmpVars, fetchVars, resVars, builtVars, refreshVars >>
    /\ UNCHANGED << base_file, head_file, src, bypass_max_diff,
                    should_search_for_changes, total_diff_length,
                    calculated, cs_cache, lines_cache, head_file_eof,
                    base_file_eof, reader, orig_segments, n_pass, n_reads,
                    returned >>
    /\ IF pop_line_raises(segments, base_ln, head_ln)
       THEN /\ pc' = "raised"
            /\ UNCHANGED << diff_data, segments, base_ln, head_ln, visVars,
                            popped, n_iter, last_event >>
       ELSE LET from_segment == traversing_diff(segments, base_ln, head_ln)
                line_value == pop_line_value(segments, base_ln, head_ln)
                segs1 == pop_line_segments(segments, base_ln, head_ln)
                e_base == EventBaseLn(line_value, base_ln)
                e_head == EventHeadLn(line_value, head_ln)
                is_diff == traversing_diff(segs1, base_ln, head_ln)
                next_ln == Advance(line_value, base_ln, head_ln)
            IN  /\ summary' = ChangeSummaryCall(summary, e_base, e_head,
                                                line_value, is_diff)
                /\ lines' = LineComparisonCall(lines, e_base, e_head,
                                               line_value, is_diff)
                /\ base_ln' = next_ln[1]
                /\ head_ln' = next_ln[2]
                /\ segments' = Retire(segs1)
                /\ diff_data' = IF diff_data = None THEN None
                                ELSE Some([diff_data[1] EXCEPT !.segments = segments'])
                /\ popped' = IF from_segment THEN Append(popped, line_value)
                             ELSE popped
                /\ n_iter' = n_iter + 1
                /\ last_event' = Some([base_ln |-> e_base, head_ln |-> e_head,
                                       value |-> line_value, is_diff |-> is_diff,
                                       from_segment |-> from_segment,
                                       at |-> << base_ln, head_ln >>,
                                       calls |-> VisitorCalls(line_value, segs1,
                                                              base_ln, head_ln)])
                /\ pc' = "apply"

\* apply() returns: the pair is stored and the read that started it returns.
ApplyDone ==
    /\ pc = "apply"
    /\ traverse_finished
    /\ calculated' = Memoized(<< summary, lines >>)
    /\ Return(reader, Project(reader, << summary, lines >>))
    /\ pc' = "idle"
    /\ UNCHANGED << cmpVars, fetchVars, resVars, builtVars, refreshVars >>
    /\ UNCHANGED << base_file, head_file, diff_data, src, bypass_max_diff,
                    should_search_for_changes, total_diff_length, tmVars,
                    visVars, reader, orig_segments, popped, n_iter, last_event,
                    n_pass, n_reads >>

Next == ReadChangeSummary \/ ReadLines \/ ApplyStep \/ ApplyDone

Spec == Init /\ [][Next]_vars

\* What a File Comparison holds when the next one is built: the diff data
\* it was given, its total diff length and the properties resolved so far.
Held ==
    [diff_data |-> IF diff_data = None THEN None
                   ELSE Some([diff_data[1] EXCEPT !.segments = orig_segments]),
     total_diff_length |-> total_diff_length,
     change_summary |-> cs_cache,
     lines |-> lines_cache]

\* Comparison.get_file_comparison called once more for the same file, with
\* the same arguments: the report files, the source and the hint are the
\* same, and diff_data is the same dict of the memoized git comparison, as
\* the traversals so far have left it. A new FileComparison is constructed.
GetFileComparisonAgain ==
    /\ pc = "idle"
    /\ fc_built < MaxBuilds
    /\ fc_built' = fc_built + 1
    /\ fc_first' = IF fc_first = None THEN Some(Held) ELSE fc_first
    /\ total_diff_length' = TotalDiffLength(diff_data)
    /\ calculated' = None
    /\ cs_cache' = None
    /\ lines_cache' = None
    /\ head_file_eof' = 0
    /\ base_file_eof' = 0
    /\ segments' = << >>
    /\ base_ln' = 0
    /\ head_ln' = 0
    /\ summary' = EmptyCounter
    /\ lines' = << >>
    /\ pc' = "idle"
    /\ reader' = "none"
    /\ orig_segments' = (IF diff_data = None THEN << >> ELSE diff_data[1].segments)
    /\ popped' = << >>
    /\ n_iter' = 0
    /\ last_event' = None
    /\ n_pass' = 0
    /\ n_reads' = 0
    /\ returned' = [change_summary |-> {}, lines |-> {}]
    /\ UNCHANGED << base_file, head_file, diff_data, src, bypass_max_diff,
                    should_search_for_changes >>
    /\ UNCHANGED << cmpVars, fetchVars, resVars, refreshVars >>

NextTwice == Next \/ GetFileComparisonAgain

SpecTwice == Init /\ [][NextTwice]_vars


\* --------------------------------------------------------- Comparison

\* json.dumps and json.loads of None and of a list of file names.
json_dumps(v) == IF v = None THEN [t |-> "null"] ELSE [t |-> "array", items |-> v[1]]

\* Variant: the cached document is never decoded into a list.
json_loads_null(j) == None

json_loads(j) == IF j.t = "null" THEN None ELSE Some(j.items)

\* redis.get(key) or json.dumps(None)
GetOrNull(value) == IF value = None THEN json_dumps(None) ELSE value[1]

\* _retrieve_files_with_changes_from_cache: without a pull id, or when the
\* connection fails (OSError, logged), the method returns None.
_retrieve_files_with_changes_from_cache(c, fails) ==
    IF c_pullid[c] = None THEN None
    ELSE IF fails THEN None
    ELSE json_loads(GetOrNull(redis_value))

\* Whether _set_files_with_changes_in_cache_if_not_already_set calls
\* redis.set.
WritesCache(c) == c_files_with_changes[c] = None /\ c_pullid[c] /= None

\* Variant: a file name missing from the cached list gets no hint.
HintFor_absent_unknown(c, file_name) ==
    IF c_files_with_changes[c] = None THEN "None"
    ELSE IF file_name \in Range(c_files_with_changes[c][1]) THEN "True"
    ELSE "None"

\* The hint get_file_comparison gives the File Comparison of file_name.
HintFor(c, file_name) ==
    IF c_files_with_changes[c] = None THEN "None"
    ELSE IF file_name \in Range(c_files_with_changes[c][1]) THEN "True"
    ELSE "False"

\* Variant: every file yielded is accumulated.
HasChangeSummary_always(c, file_name) == TRUE

\* Whether the change summary of the File Comparison of file_name is
\* non-empty: its pass runs and finds a coverage change.
HasChangeSummary(c, file_name) ==
    /\ file_name \in DiffedFiles \/ HintFor(c, file_name) /= "False"
    /\ file_name \in c_changed[c]

\* What the probe of __init__ meets: no pull id (no probe is made), a
\* failed connection, no entry, or an entry.
ProbeKind(c, fails) ==
    IF c_pullid[c] = None THEN "nopull"
    ELSE IF fails THEN "failed"
    ELSE IF redis_value = None THEN "miss"
    ELSE "hit"

\* Comparison.__init__: the cache is probed once.
Construct(c) ==
    /\ c_state[c] = "new"
    /\ \E fails \in BOOLEAN :
           /\ c_files_with_changes' =
                  [c_files_with_changes EXCEPT
                       ![c] = _retrieve_files_with_changes_from_cache(c, fails)]
           /\ c_probe' = [c_probe EXCEPT
                              ![c] = [kind |-> ProbeKind(c, fails),
                                      at |-> Len(write_log)]]
    /\ c_state' = [c_state EXCEPT ![c] = "built"]
    /\ UNCHANGED << redis_value, c_pullid, c_files, c_changed, c_acc, c_pos,
                    c_hints, write_log >>
    /\ UNCHANGED << fileVars, fetchVars, resVars, refreshVars >>

\* The generator of files runs up to its next yield.
YieldFile(c) ==
    /\ c_state[c] \in {"built", "files"}
    /\ c_pos[c] < Len(c_files[c])
    /\ LET file_name == c_files[c][c_pos[c] + 1]
       IN  /\ c_acc' = [c_acc EXCEPT ![c] =
                            IF HasChangeSummary(c, file_name)
                            THEN Append(@, file_name) ELSE @]
           /\ c_hints' = [c_hints EXCEPT ![c] = Append(@, HintFor(c, file_name))]
    /\ c_pos' = [c_pos EXCEPT ![c] = @ + 1]
    /\ c_state' = [c_state EXCEPT ![c] = "files"]
    /\ UNCHANGED << redis_value, c_pullid, c_files, c_changed,
                    c_files_with_changes, write_log, c_probe >>
    /\ UNCHANGED << fileVars, fetchVars, resVars, refreshVars >>

\* The generator is resumed after its last yield: the accumulated list is
\* handed to _set_files_with_changes_in_cache_if_not_already_set. An OSError
\* of redis.set is not caught there.
Exhaust(c) ==
    /\ c_state[c] \in {"built", "files"}
    /\ c_pos[c] = Len(c_files[c])
    /\ IF WritesCache(c)
       THEN \E fails \in BOOLEAN :
                IF fails
                THEN /\ c_state' = [c_state EXCEPT ![c] = "raised"]
                     /\ UNCHANGED << redis_value, write_log >>
                ELSE /\ c_state' = [c_state EXCEPT ![c] = "done"]
                     /\ redis_value' = Some(json_dumps(Some(c_acc[c])))
                     /\ write_log' = Append(write_log,
                            [by |-> c, prior |-> redis_value,
                             value |-> json_dumps(Some(c_acc[c]))])
       ELSE /\ c_state' = [c_state EXCEPT ![c] = "done"]
            /\ UNCHANGED << redis_value, write_log >>
    /\ UNCHANGED << c_pullid, c_files, c_changed, c_files_with_changes, c_acc,
                    c_pos, c_hints, c_probe >>
    /\ UNCHANGED << fileVars, fetchVars, resVars, refreshVars >>

\* The sets of files whose coverage changed, as a Comparison may find them.
ChangedSets == {{}, {"b.py"}, {"c.py"}, {"a.py", "b.py"}}

InitCache ==
    /\ NoReports
    /\ NoRefresh
    /\ Constructed(None, None, None, << >>, FALSE, "None")
    /\ \E pullids \in [Comparisons -> {None, Some("pull")}],
          changed \in [Comparisons -> ChangedSets] :
           ComparisonsNew(pullids, changed)

NextCache == \E c \in Comparisons : Construct(c) \/ YieldFile(c) \/ Exhaust(c)

\* Comparisons of one pull request, built and consumed in any interleaving.
SpecCache == InitCache /\ [][NextCache]_vars

\* ------------------------------------------- Comparison: diff documents

\* get_compare(base, head) and get_compare(head, base): the documents the
\* two coroutines resolve to.
ForwardDoc == [from |-> "base", to |-> "head"]

ReverseDoc == [from |-> "head", to |-> "base"]

\* Variant: the pair holds the documents in the order the tasks completed.
GatherResult_completion_order(order) ==
    [i \in 1..2 |-> IF order[i] = "fwd" THEN ForwardDoc ELSE ReverseDoc]

\* asyncio.gather: the results in the order of its arguments, whatever the
\* order the tasks completed in.
GatherResult(order) == << ForwardDoc, ReverseDoc >>

FetchReaders == {"git_comparison", "has_unmerged_base_commits"}

\* git_comparison reads the first of the pair, has_unmerged_base_commits
\* the second.
PairItem(r, pair) == IF r = "git_comparison" THEN pair[1] ELSE pair[2]

\* A read of git_comparison or has_unmerged_base_commits: the memoized pair
\* is used if there is one; otherwise the two tasks are created and the
\* caller waits in run_until_complete.
ReadDiff(c, r) ==
    /\ f_call[c] = "idle"
    /\ f_reads[c] < MaxFetchReads
    /\ f_reads' = [f_reads EXCEPT ![c] = @ + 1]
    /\ f_reader' = [f_reader EXCEPT ![c] = r]
    /\ IF f_memo[c] /= None
       THEN /\ f_result' = [f_result EXCEPT
                                ![c] = [kind |-> "value",
                                        value |-> PairItem(r, f_memo[c][1])]]
            /\ UNCHANGED << f_tasks, f_call, f_memo, f_order >>
       ELSE /\ f_tasks' = [f_tasks EXCEPT ![c] = [fwd |-> "pending", rev |-> "pending"]]
            /\ f_call' = [f_call EXCEPT ![c] = "waiting"]
            /\ f_order' = [f_order EXCEPT ![c] = << >>]
            /\ f_result' = [f_result EXCEPT ![c] = [kind |-> "none"]]
            /\ UNCHANGED f_memo
    /\ UNCHANGED << fileVars, cmpVars, resVars, refreshVars >>

\* A fetch task completes with its document. If the other has completed
\* too, gather resolves, the cached_property stores the pair and the read
\* returns.
TaskSucceeds(c, task) ==
    /\ f_call[c] = "waiting"
    /\ f_tasks[c][task] = "pending"
    /\ f_tasks' = [f_tasks EXCEPT ![c][task] = "done"]
    /\ f_order' = [f_order EXCEPT ![c] = Append(@, task)]
    /\ IF \A k \in {"fwd", "rev"} : f_tasks'[c][k] = "done"
       THEN /\ f_memo' = [f_memo EXCEPT ![c] = Some(GatherResult(f_order'[c]))]
            /\ f_result' = [f_result EXCEPT
                                ![c] = [kind |-> "value",
                                        value |-> PairItem(f_reader[c],
                                                           f_memo'[c][1])]]
            /\ f_call' = [f_call EXCEPT ![c] = "idle"]
       ELSE UNCHANGED << f_memo, f_result, f_call >>
    /\ UNCHANGED << f_reader, f_reads >>
    /\ UNCHANGED << fileVars, cmpVars, resVars, refreshVars >>

\* A fetch task raises: gather raises at once, whether or not the other
\* task has completed, the exception leaves the cached_property and nothing
\* is stored.
TaskFails(c, task) ==
    /\ f_call[c] = "waiting"
    /\ f_tasks[c][task] = "pending"
    /\ f_tasks' = [f_tasks EXCEPT ![c][task] = "failed"]
    /\ f_order' = [f_order EXCEPT ![c] = Append(@, task)]
    /\ f_result' = [f_result EXCEPT ![c] = [kind |-> "raised"]]
    /\ f_call' = [f_call EXCEPT ![c] = "idle"]
    /\ UNCHANGED << f_memo, f_reader, f_reads >>
    /\ UNCHANGED << fileVars, cmpVars, resVars, refreshVars >>

InitFetch ==
    /\ NoReports
    /\ NoRefresh
    /\ Constructed(None, None, None, << >>, FALSE, "None")
    /\ ComparisonsNew([c \in Comparisons |-> None], [c \in Comparisons |-> {}])

NextFetch ==
    \E c \in Comparisons :
        \/ \E r \in FetchReaders : ReadDiff(c, r)
        \/ \E task \in {"fwd", "rev"} : TaskSucceeds(c, task) \/ TaskFails(c, task)

\* The diff documents of the Comparisons, fetched in any interleaving.
SpecFetch == InitFetch /\ [][NextFetch]_vars

\* ------------------------------------------------ Comparison: reports

ReportNames == {"a.py", "old.py"}

FlagNames == {"unit"}

\* The reports build_report_from_commit can give for a commit: the files
\* and the flags they hold data for.
ReportsOf(commit) ==
    {[commit |-> commit, files |-> fs, flags |-> fl, diffed |-> FALSE] :
        fs \in SUBSET ReportNames, fl \in SUBSET FlagNames}

\* The entry of the forward diff for a.py: none, or its metadata with the
\* previous name of the file, if it was renamed.
DiffEntries == {None, Some([before |-> None]), Some([before |-> Some("old.py")])}

\* report.apply_diff(diff): the report, with the diff applied to it.
apply_diff(report, diff) == [report EXCEPT !.diffed = TRUE]

\* report.get(name): the file of that name, or None; name may be None.
ReportGet(report, name) ==
    IF name /= None /\ name[1] \in report.files
    THEN Some([commit |-> report.commit, name |-> name[1]])
    ELSE None

\* Variant: a sub-report is given for a flag the report has no data for.
FlagsGet_always(report, flag) == Some([commit |-> report.commit, flag |-> flag])

\* report.flags.get(flag_name): the flag-filtered sub-report, or None.
FlagsGet(report, flag) ==
    IF flag \in report.flags
    THEN Some([commit |-> report.commit, flag |-> flag])
    ELSE None

\* report.totals
TotalsOf(report) == [commit |-> report.commit, diffed |-> report.diffed]

\* Variant: more than no commit counts as unmerged.
UnmergedCommits_any(n) == n > 0

\* len(commits) > 1
UnmergedCommits(n) == n > 1

\* Variant: the base file is looked up under the current name only.
BaseFileOf_no_fallback(base_report, file_name, file_diff) ==
    IF base_report /= None THEN ReportGet(base_report[1], Some(file_name))
    ELSE None

\* The base file get_file_comparison finds.
BaseFileOf(base_report, file_name, file_diff) ==
    IF base_report /= None
    THEN LET base_file_1 == ReportGet(base_report[1], Some(file_name))
         IN  IF base_file_1 = None /\ file_diff /= None
             THEN ReportGet(base_report[1], file_diff[1].before)
             ELSE base_file_1
    ELSE None

\* Comparison.head_report raises: None.apply_diff, when no report was built
\* and none is cached.
HeadReportRaises == r_head_memo = None /\ r_head_built = None

\* The value of Comparison.head_report (when it does not raise).
HeadReportValue ==
    IF r_head_memo /= None THEN r_head_memo[1]
    ELSE apply_diff(r_head_built[1], r_diff)

\* Comparison.base_report: None or Some(report).
BaseReportValue == IF r_base_memo /= None THEN r_base_memo ELSE r_base_built

\* The calls of build_report_from_commit counted after a read that
\* evaluates base_report (reads_base) and head_report (reads_head): the
\* base report is built when _base_report is None, the head report when
\* the cached_property holds no value.
Fetched(reads_base, reads_head) ==
    [base |-> r_fetches.base + (IF reads_base /\ r_base_memo = None THEN 1 ELSE 0),
     head |-> r_fetches.head + (IF reads_head /\ r_head_memo = None THEN 1 ELSE 0)]

\* A property read ends with the outcome given.
Outcome(op, kind, value) ==
    /\ r_calls < MaxResolveCalls
    /\ r_calls' = r_calls + 1
    /\ r_last' = [op |-> op, kind |-> kind, value |-> value]
    /\ UNCHANGED << r_base_built, r_head_built, r_diff, r_rev_commits >>
    /\ UNCHANGED << fileVars, cmpVars, fetchVars, refreshVars >>

\* Comparison.base_report
ReadBaseReport ==
    /\ Outcome("base_report", "value", BaseReportValue)
    /\ r_base_memo' = BaseReportValue
    /\ r_fetches' = Fetched(TRUE, FALSE)
    /\ UNCHANGED << r_head_memo, r_unmerged_memo >>

\* Comparison.head_report
ReadHeadReport ==
    /\ r_fetches' = Fetched(FALSE, TRUE)
    /\ IF HeadReportRaises
       THEN Outcome("head_report", "raised", None) /\ UNCHANGED r_head_memo
       ELSE /\ Outcome("head_report", "value", Some(HeadReportValue))
            /\ r_head_memo' = Some(HeadReportValue)
    /\ UNCHANGED << r_base_memo, r_unmerged_memo >>

\* Comparison.totals: the base entry is evaluated first.
ReadTotals ==
    /\ r_base_memo' = BaseReportValue
    /\ r_fetches' = Fetched(TRUE, TRUE)
    /\ LET base == IF BaseReportValue /= None
                   THEN Some(TotalsOf(BaseReportValue[1])) ELSE None
       IN  IF HeadReportRaises
           THEN Outcome("totals", "raised", None) /\ UNCHANGED r_head_memo
           ELSE /\ Outcome("totals", "value",
                           [base |-> base, head |-> Some(TotalsOf(HeadReportValue))])
                /\ r_head_memo' = Some(HeadReportValue)
    /\ UNCHANGED r_unmerged_memo

\* Comparison.get_file_comparison(file_name): the report files and the diff
\* data handed to FileComparison. head_report is read first.
GetFileComparison(file_name) ==
    /\ IF HeadReportRaises
       THEN /\ Outcome("get_file_comparison", "raised", None)
            /\ r_fetches' = Fetched(FALSE, TRUE)
            /\ UNCHANGED << r_head_memo, r_base_memo >>
       ELSE LET file_diff == IF file_name = "a.py" THEN r_diff ELSE None
            IN  /\ Outcome("get_file_comparison", "value",
                           [file_name |-> file_name,
                            head_file |-> ReportGet(HeadReportValue, Some(file_name)),
                            diff_data |-> file_diff,
                            base_file |-> BaseFileOf(BaseReportValue, file_name,
                                                     file_diff)])
                /\ r_head_memo' = Some(HeadReportValue)
                /\ r_base_memo' = BaseReportValue
                /\ r_fetches' = Fetched(TRUE, TRUE)
    /\ UNCHANGED r_unmerged_memo

\* Comparison.has_unmerged_base_commits (cached)
ReadHasUnmerged ==
    LET value == IF r_unmerged_memo /= None THEN r_unmerged_memo[1]
                 ELSE UnmergedCommits(r_rev_commits)
    IN  /\ Outcome("has_unmerged_base_commits", "value", value)
        /\ r_unmerged_memo' = Some(value)
        /\ UNCHANGED << r_base_memo, r_head_memo, r_fetches >>

\* FlagComparison.head_report
FlagHeadReport(flag) ==
    /\ r_fetches' = Fetched(FALSE, TRUE)
    /\ IF HeadReportRaises
       THEN Outcome("flag.head_report", "raised", None) /\ UNCHANGED r_head_memo
       ELSE /\ Outcome("flag.head_report", "value",
                       [flag |-> flag, sub |-> FlagsGet(HeadReportValue, flag)])
            /\ r_head_memo' = Some(HeadReportValue)
    /\ UNCHANGED << r_base_memo, r_unmerged_memo >>

\* FlagComparison.base_report: None.flags raises when there is no base
\* report.
FlagBaseReport(flag) ==
    /\ r_base_memo' = BaseReportValue
    /\ r_fetches' = Fetched(TRUE, FALSE)
    /\ IF BaseReportValue = None
       THEN Outcome("flag.base_report", "raised", None)
       ELSE Outcome("flag.base_report", "value",
                    [flag |-> flag, sub |-> FlagsGet(BaseReportValue[1], flag)])
    /\ UNCHANGED << r_head_memo, r_unmerged_memo >>

\* FlagComparison.diff_totals
FlagDiffTotals(flag) ==
    /\ r_fetches' = Fetched(FALSE, TRUE)
    /\ IF HeadReportRaises
       THEN Outcome("flag.diff_totals", "raised", None) /\ UNCHANGED r_head_memo
       ELSE LET sub == FlagsGet(HeadReportValue, flag)
            IN  /\ Outcome("flag.diff_totals", "value",
                           [flag |-> flag,
                            totals |-> IF sub = None THEN None
                                       ELSE Some([of |-> sub[1], diff |-> r_diff])])
                /\ r_head_memo' = Some(HeadReportValue)
    /\ UNCHANGED << r_base_memo, r_unmerged_memo >>

InitResolve ==
    /\ NoRefresh
    /\ Constructed(None, None, None, << >>, FALSE, "None")
    /\ ComparisonsNew([c \in Comparisons |-> None], [c \in Comparisons |-> {}])
    /\ \E base_built \in {None} \cup {Some(r) : r \in ReportsOf("base")},
          head_built \in {None} \cup {Some(r) : r \in ReportsOf("head")},
          diff \in DiffEntries,
          rev_commits \in 0..MaxCommits :
           ReportsGiven(base_built, head_built, diff, rev_commits)

NextResolve ==
    \/ ReadBaseReport
    \/ ReadHeadReport
    \/ ReadTotals
    \/ \E file_name \in ReportNames : GetFileComparison(file_name)
    \/ ReadHasUnmerged
    \/ \E flag \in FlagNames \cup {"other"} :
           FlagHeadReport(flag) \/ FlagBaseReport(flag) \/ FlagDiffTotals(flag)

\* The properties of one Comparison, read in any order.
SpecResolve == InitResolve /\ [][NextResolve]_vars

\* ----------------------------------------------------- RefreshService

\* dumps(resp.as_tuple()): the record trigger_refresh stores for task t.
TaskRecord(t) == [kind |-> "task", id |-> t]

\* Records that do not decode: loads raises ValueError on the first,
\* result_from_tuple raises TypeError on the second.
Undecodable == {[kind |-> "not_json", id |-> 0], [kind |-> "not_a_tuple", id |-> 0]}

\* Variant: every record is taken for a task's.
Decodes_any(rec) == TRUE

\* result_from_tuple(loads(data_task)) returns a result, raising nothing.
Decodes(rec) == rec.kind = "task"

\* Variant: no task is ever found pending.
NotReady_never(t) == FALSE

\* not result.ready()
NotReady(t) == t \notin q_ready

\* The `return True` branch of is_refreshing.
StillRefreshing(data_task) == Decodes(data_task) /\ NotReady(data_task.id)

\* Where a caller goes on after is_refreshing has returned False.
AfterFalse(op) == IF op = "trigger_refresh" THEN "refresh" ELSE "idle"

RefreshOps == {"is_refreshing", "trigger_refresh"}

\* is_refreshing, called directly or by trigger_refresh: redis.hget, and
\* the return of False when there is no data.
HGet(p, op) ==
    /\ q_pc[p] = "idle"
    /\ q_calls < MaxRefreshCalls
    /\ q_calls' = q_calls + 1
    /\ q_op' = [q_op EXCEPT ![p] = op]
    /\ q_data' = [q_data EXCEPT ![p] = q_record]
    /\ IF q_record = None
       THEN /\ q_ret' = [q_ret EXCEPT ![p] = Some(FALSE)]
            /\ q_pc' = [q_pc EXCEPT ![p] = AfterFalse(op)]
       ELSE /\ q_ret' = [q_ret EXCEPT ![p] = None]
            /\ q_pc' = [q_pc EXCEPT ![p] = "decode"]
    /\ UNCHANGED << q_record, q_enqueued, q_ready, q_task >>
    /\ UNCHANGED << fileVars, cmpVars, fetchVars, resVars >>

\* A call that starts while no other call is under way.
HGetAlone(p, op) ==
    /\ \A q \in Callers : q_pc[q] = "idle"
    /\ HGet(p, op)

\* The suppress block: the record is decoded and the task's state asked
\* for; True is returned for a task that is not ready.
Ready(p) ==
    /\ q_pc[p] = "decode"
    /\ IF StillRefreshing(q_data[p][1])
       THEN /\ q_ret' = [q_ret EXCEPT ![p] = Some(TRUE)]
            /\ q_pc' = [q_pc EXCEPT ![p] = "idle"]
       ELSE /\ q_pc' = [q_pc EXCEPT ![p] = "hdel"]
            /\ UNCHANGED q_ret
    /\ UNCHANGED << q_record, q_enqueued, q_ready, q_op, q_data, q_task, q_calls >>
    /\ UNCHANGED << fileVars, cmpVars, fetchVars, resVars >>

\* redis.hdel("refresh", ownerid) and the return of False.
HDel(p) ==
    /\ q_pc[p] = "hdel"
    /\ q_record' = None
    /\ q_ret' = [q_ret EXCEPT ![p] = Some(FALSE)]
    /\ q_pc' = [q_pc EXCEPT ![p] = AfterFalse(q_op[p])]
    /\ UNCHANGED << q_enqueued, q_ready, q_op, q_data, q_task, q_calls >>
    /\ UNCHANGED << fileVars, cmpVars, fetchVars, resVars >>

\* trigger_refresh: task_service.refresh(...) enqueues a task.
Refresh(p) ==
    /\ q_pc[p] = "refresh"
    /\ q_enqueued' = q_enqueued + 1
    /\ q_task' = [q_task EXCEPT ![p] = q_enqueued + 1]
    /\ q_pc' = [q_pc EXCEPT ![p] = "hset"]
    /\ UNCHANGED << q_record, q_ready, q_op, q_data, q_ret, q_calls >>
    /\ UNCHANGED << fileVars, cmpVars, fetchVars, resVars >>

\* trigger_refresh: redis.hset("refresh", ownerid, dumps(resp.as_tuple())).
HSet(p) ==
    /\ q_pc[p] = "hset"
    /\ q_record' = Some(TaskRecord(q_task[p]))
    /\ q_pc' = [q_pc EXCEPT ![p] = "idle"]
    /\ UNCHANGED << q_enqueued, q_ready, q_op, q_data, q_task, q_ret, q_calls >>
    /\ UNCHANGED << fileVars, cmpVars, fetchVars, resVars >>

\* The worker finishes task t.
TaskBecomesReady(t) ==
    /\ t \in 1..q_enqueued
    /\ t \notin q_ready
    /\ q_ready' = q_ready \cup {t}
    /\ UNCHANGED << q_record, q_enqueued, q_pc, q_op, q_data, q_task, q_ret, q_calls >>
    /\ UNCHANGED << fileVars, cmpVars, fetchVars, resVars >>

\* The owner's entry is absent, undecodable, or the record of an earlier
\* task, pending or ready.
InitRefresh ==
    /\ NoReports
    /\ Constructed(None, None, None, << >>, FALSE, "None")
    /\ ComparisonsNew([c \in Comparisons |-> None], [c \in Comparisons |-> {}])
    /\ \/ RefreshGiven(None, 0, {})
       \/ \E rec \in Undecodable : RefreshGiven(Some(rec), 0, {})
       \/ \E ready \in SUBSET {1} : RefreshGiven(Some(TaskRecord(1)), 1, ready)

RestOfCall(p) == Ready(p) \/ HDel(p) \/ Refresh(p) \/ HSet(p)

NextRefreshAlone ==
    \/ \E p \in Callers, op \in RefreshOps : HGetAlone(p, op)
    \/ \E p \in Callers : RestOfCall(p)
    \/ \E t \in 1..(MaxRefreshCalls + 1) : TaskBecomesReady(t)

NextRefresh ==
    \/ \E p \in Callers, op \in RefreshOps : HGet(p, op)
    \/ \E p \in Callers : RestOfCall(p)
    \/ \E t \in 1..(MaxRefreshCalls + 1) : TaskBecomesReady(t)

\* Calls made one after another, the worker running beside them.
SpecRefreshAlone == InitRefresh /\ [][NextRefreshAlone]_vars

\* Calls of several processes, interleaved at the calls to redis and to
\* the task service.
SpecRefresh == InitRefresh /\ [][NextRefresh]_vars

\* ------------------------------------------------------------ claims


\* The reconciler pass has run and apply() has returned.
PassFinished == n_pass >= 1 /\ calculated /= None

\* The transition is one iteration of the loop that emitted an event.
Iterated == n_iter' = n_iter + 1

\* C1. With diff segments and no full source, an iteration whose value
\* starts with '+' emits base_ln absent and advances head_ln alone by 1, one
\* whose value starts with '-' emits head_ln absent and advances base_ln
\* alone by 1, and any other carries both pointers and advances both by 1;
\* base_ln is absent only for '+' and head_ln only for '-'.
C1_PointerAdvance ==
    [][(Iterated /\ orig_segments /= << >> /\ src = << >>) =>
        LET e == last_event'[1]
        IN  /\ e.value = "+" =>
                /\ e.base_ln = None /\ e.head_ln = Some(head_ln)
                /\ head_ln' = head_ln + 1 /\ base_ln' = base_ln
            /\ e.value = "-" =>
                /\ e.head_ln = None /\ e.base_ln = Some(base_ln)
                /\ base_ln' = base_ln + 1 /\ head_ln' = head_ln
            /\ e.value \notin {"+", "-"} =>
                /\ e.base_ln = Some(base_ln) /\ e.head_ln = Some(head_ln)
                /\ base_ln' = base_ln + 1 /\ head_ln' = head_ln + 1
            /\ e.base_ln = None => e.value = "+"
            /\ e.head_ln = None => e.value = "-"]_vars

C1_Witness ==
    /\ PassFinished /\ src = << >>
    /\ {"+", "-", "u"} \subseteq Range(popped)

\* C2. The values taken from segment line buffers are, in order, the lines
\* of the file's segments: during the pass what has been popped followed by
\* what is left is the original content, and when the traversal finishes
\* nothing is left, so the number popped is the sum of the original lengths.
C2_PoppedOnceInOrder ==
    /\ n_pass >= 1 => popped \o ConcatLines(segments) = ConcatLines(orig_segments)
    /\ (PassFinished \/ (pc = "apply" /\ traverse_finished)) =>
           /\ Len(popped) = TotalLines(orig_segments)
           /\ popped = ConcatLines(orig_segments)

C2_Witness ==
    /\ PassFinished
    /\ Len(orig_segments) = 2
    /\ Len(popped) = MaxHunkLines + 2
    /\ n_iter > Len(popped)

\* Consecutive segments are in ascending order and do not overlap.
SortedNonOverlapping(segs) ==
    \A i \in 1..(Len(segs) - 1) :
        /\ SegBaseOffset(segs[i]) + SegBaseLen(segs[i]) <= SegBaseOffset(segs[i + 1])
        /\ SegHeadOffset(segs[i]) + SegHeadLen(segs[i]) <= SegHeadOffset(segs[i + 1])

\* Every segment is a hunk whose header counts the lines it holds.
HunksOnly(segs) ==
    \A i \in DOMAIN segs :
        /\ segs[i].lines /= << >>
        /\ SegBaseLen(segs[i]) = CountBase(segs[i].lines)
        /\ SegHeadLen(segs[i]) = CountHead(segs[i].lines)

\* C3. For segments sorted ascending and non-overlapping the loop ends in a
\* single forward pass, with or without full source: it never runs more
\* iterations than a forward pass over the segment lines and the line
\* numbers can take. Stated for the lists made of hunks alone.
C3_SingleForwardPass ==
    (/\ orig_segments /= << >>
     /\ HunksOnly(orig_segments)
     /\ SortedNonOverlapping(orig_segments)) =>
        n_iter <= IterationBound

CounterSum(c) ==
    CounterGet(c, "hits") + CounterGet(c, "misses") + CounterGet(c, "partials")

\* C4. The change summary sums to zero after any sequence of events, and so
\* does every change summary a read returns.
C4_SummarySumsToZero ==
    /\ CounterSum(summary) = 0
    /\ \A s \in returned.change_summary : CounterSum(s) = 0

C4_Witness ==
    /\ pc = "apply"
    /\ DOMAIN summary = {"hits", "misses", "partials"}
    /\ CounterGet(summary, "hits") >= 2

\* A coverage line exists at line number ln of a report file.
LineExists(file, ln) ==
    /\ file /= None
    /\ ln /= None
    /\ ln[1] \in 1..Len(file[1])
    /\ file[1][ln[1]] /= NoCov

\* C5. An iteration changes the summary if and only if the value is not
\* prefixed '+' or '-', a coverage line exists at the event's base_ln in the
\* base file and at its head_ln in the head file, and their types differ;
\* it then takes 1 from the base type's category and adds 1 to the head
\* type's category.
C5_SummaryUpdate ==
    [][Iterated =>
        LET e == last_event'[1]
            contributes ==
                /\ e.value \notin {"+", "-"}
                /\ LineExists(base_file, e.base_ln)
                /\ LineExists(head_file, e.head_ln)
                /\ base_file[1][e.base_ln[1]] /= head_file[1][e.head_ln[1]]
        IN  /\ (summary' /= summary) <=> contributes
            /\ contributes =>
                   LET b == coverage_type_map(base_file[1][e.base_ln[1]])
                       h == coverage_type_map(head_file[1][e.head_ln[1]])
                   IN  \A k \in {"hits", "misses", "partials"} :
                           CounterGet(summary', k) - CounterGet(summary, k) =
                               (IF k = h THEN 1 ELSE 0) - (IF k = b THEN 1 ELSE 0)]_vars


\* The file has no diff segments and no full source was supplied.
NoSegmentsNoSource == orig_segments = << >> /\ src = << >>

\* C6 as written. With no diff segments and no full source the reconciler
\* emits exactly max(base_eof, head_eof) - 1 events, whatever the two eof
\* values are (0 included).
C6_Original ==
    (PassFinished /\ NoSegmentsNoSource) =>
        n_iter = Max(base_file_eof, head_file_eof) - 1

\* C6 as amended. With no diff segments and no full source the reconciler
\* emits exactly max(base_eof, head_eof, 1) - 1 events (none when both eof
\* values are 0), and every event has base_ln = head_ln.
C6_EventCount ==
    /\ (PassFinished /\ NoSegmentsNoSource) =>
           n_iter = Max(Max(base_file_eof, head_file_eof), 1) - 1
    /\ (n_pass >= 1 /\ NoSegmentsNoSource /\ last_event /= None) =>
           /\ last_event[1].base_ln /= None
           /\ last_event[1].base_ln = last_event[1].head_ln
           /\ last_event[1].base_ln = Some(n_iter)

C6_Witness ==
    /\ PassFinished /\ NoSegmentsNoSource
    /\ base_file_eof = MaxFileLen + 1
    /\ head_file_eof = 0
    /\ n_iter = MaxFileLen

\* The hunk BigHunk(n) is the whole diff of the file.
IsBigDiff(n) == orig_segments = << BigHunk(n) >>

\* The delta of category k over the lines BigHunk(n) leaves unchanged (lines
\* 2..n-1 of both report files), counted from the two report files.
BigExpected(n, k) ==
    LET changed == {i \in 2..(n - 1) :
                        /\ CovAt("A", i) /= NoCov /\ CovAt("B", i) /= NoCov
                        /\ CovAt("A", i) /= CovAt("B", i)}
    IN  Cardinality({i \in changed : coverage_type_map(CovAt("B", i)) = k})
            - Cardinality({i \in changed : coverage_type_map(CovAt("A", i)) = k})

\* C7. When the diff segments hold more than MAX_DIFF_SIZE lines and bypass
\* is false, lines is None while change_summary comes from a complete pass
\* over every segment line, with the deltas of the report files whatever
\* bypass is; otherwise lines is the reconciled line list.
C7_Truncation ==
    /\ lines_cache /= None =>
           IF total_diff_length > MAX_DIFF_SIZE /\ ~bypass_max_diff
           THEN lines_cache[1] = None
           ELSE calculated /= None /\ lines_cache[1] = Some(calculated[1][2])
    /\ \A s \in returned.lines :
           s = None <=> (total_diff_length > MAX_DIFF_SIZE /\ ~bypass_max_diff)
    /\ cs_cache /= None =>
           /\ calculated /= None /\ cs_cache[1] = calculated[1][1]
           /\ RunsPass =>
                  /\ cs_cache[1] = summary
                  /\ segments = << >>
                  /\ Len(popped) = total_diff_length
           /\ \A n \in {MAX_DIFF_SIZE, MAX_DIFF_SIZE + 1} :
                  IsBigDiff(n) =>
                      \A k \in {"hits", "misses", "partials"} :
                          CounterGet(cs_cache[1], k) = BigExpected(n, k)

C7_Witness ==
    /\ total_diff_length = MAX_DIFF_SIZE + 1
    /\ ~bypass_max_diff
    /\ lines_cache = Some(None)
    /\ cs_cache /= None
    /\ CounterGet(cs_cache[1], "partials") < 0

C10_FirstWriterWins ==
    \A i \in DOMAIN write_log : write_log[i].prior = None


\* The list the cache held when Comparison c probed it and found an entry.
ProbedList(c) == write_log[c_probe[c].at].value.items

\* C11. Every File Comparison a Comparison builds receives a hint: unknown
\* (None) if the probe found no entry or no pull id was given, otherwise
\* True if its file name is in the cached list and False if it is not, so
\* that a cached empty list gives False for every file.
C11_HintResolution ==
    \A c \in Comparisons :
        /\ Len(c_hints[c]) = c_pos[c]
        /\ \A i \in DOMAIN c_hints[c] :
               /\ c_probe[c].kind \in {"nopull", "miss"} => c_hints[c][i] = "None"
               /\ c_probe[c].kind = "hit" =>
                      c_hints[c][i] =
                          (IF c_files[c][i] \in Range(ProbedList(c))
                           THEN "True" ELSE "False")
               /\ (c_probe[c].kind = "hit" /\ ProbedList(c) = << >>) =>
                      c_hints[c][i] = "False"

C11_Witness ==
    \E c, d \in Comparisons :
        /\ c_probe[c].kind = "hit" /\ ProbedList(c) = << >>
        /\ c_hints[c] = << "False", "False", "False" >>
        /\ c_probe[d].kind = "miss"
        /\ c_hints[d] = << "None", "None", "None" >>

\* The Comparison probed the cache after a write of ["a.py", "b.py"].
ReadsBackAB(c) ==
    /\ c_probe[c].kind = "hit"
    /\ ProbedList(c) = << "a.py", "b.py" >>

\* C12 as written. After a write of ["a.py", "b.py"] a fresh Comparison
\* gives hint True to a.py and b.py and hint unknown (None) to any other
\* file name.
C12_Original ==
    \A c \in Comparisons :
        ReadsBackAB(c) =>
            \A i \in DOMAIN c_hints[c] :
                c_hints[c][i] =
                    (IF c_files[c][i] \in {"a.py", "b.py"} THEN "True" ELSE "None")

\* C12 as amended. A Comparison that finds an entry holds the very list
\* that was written, and after a write of ["a.py", "b.py"] it gives hint
\* True to a.py and b.py and hint False to any other file name.
C12_RoundTrip ==
    \A c \in Comparisons :
        /\ c_probe[c].kind = "hit" =>
               c_files_with_changes[c] = Some(ProbedList(c))
        /\ ReadsBackAB(c) =>
               \A i \in DOMAIN c_hints[c] :
                   c_hints[c][i] =
                       (IF c_files[c][i] \in {"a.py", "b.py"} THEN "True" ELSE "False")

C12_Witness ==
    \E c \in Comparisons :
        /\ ReadsBackAB(c)
        /\ c_hints[c] = << "True", "True", "False" >>

\* C13. A failed cache connection is never fatal: whether the probe or the
\* write fails, the Comparison does not raise, and after a failed probe
\* every hint is unknown (None).
C13_CacheFailureNotFatal ==
    \A c \in Comparisons :
        /\ c_state[c] /= "raised"
        /\ c_probe[c].kind = "failed" =>
               \A i \in DOMAIN c_hints[c] : c_hints[c][i] = "None"


\* C14. The two fetches are joined: a read returns a document only when
\* both tasks have completed successfully, git_comparison always the forward
\* document and the reverse the second of the pair, whichever completed
\* first; while a task is pending nothing is readable, and when a fetch
\* fails the read fails and nothing is memoized.
C14_JoinBarrier ==
    \A c \in Comparisons :
        /\ f_memo[c] /= None =>
               /\ f_tasks[c] = [fwd |-> "done", rev |-> "done"]
               /\ f_memo[c] = Some(<< ForwardDoc, ReverseDoc >>)
        /\ f_result[c].kind = "value" =>
               /\ f_memo[c] /= None
               /\ f_result[c].value =
                      (IF f_reader[c] = "git_comparison"
                       THEN ForwardDoc ELSE ReverseDoc)
        /\ f_call[c] = "waiting" =>
               /\ f_memo[c] = None
               /\ f_result[c].kind = "none"
        /\ (\E k \in {"fwd", "rev"} : f_tasks[c][k] = "failed") =>
               /\ f_memo[c] = None
               /\ f_call[c] = "idle" => f_result[c].kind = "raised"

C14_Witness ==
    \E c, d \in Comparisons :
        /\ f_order[c] = << "rev", "fwd" >>
        /\ f_reader[c] = "git_comparison"
        /\ f_result[c] = [kind |-> "value", value |-> ForwardDoc]
        /\ f_reads[c] = MaxFetchReads
        /\ f_tasks[d] = [fwd |-> "done", rev |-> "failed"]
        /\ f_result[d].kind = "raised"


\* The names of the files yielded so far whose change summary is non-empty:
\* those whose coverage changed and whose pass was not skipped.
RECURSIVE NamesWithChanges(_, _)
NamesWithChanges(c, n) ==
    IF n = 0 THEN << >>
    ELSE LET name == c_files[c][n]
             kept == /\ name \in c_changed[c]
                     /\ name \in DiffedFiles \/ c_hints[c][n] /= "False"
         IN  IF kept THEN Append(NamesWithChanges(c, n - 1), name)
             ELSE NamesWithChanges(c, n - 1)

WritesBy(c) == {i \in DOMAIN write_log : write_log[i].by = c}

\* C15. files yields one File Comparison per file name of the head report,
\* in order; the cache is written only after the last one was yielded, never
\* when the consumer stopped early and at most once per Comparison, and the
\* list written is the names of the files whose change summary is
\* non-empty, in that order.
C15_FilesSequence ==
    \A c \in Comparisons :
        /\ c_pos[c] <= Len(c_files[c])
        /\ Len(c_hints[c]) = c_pos[c]
        /\ c_acc[c] = NamesWithChanges(c, c_pos[c])
        /\ Cardinality(WritesBy(c)) <= 1
        /\ c_pos[c] < Len(c_files[c]) => WritesBy(c) = {}
        /\ \A i \in WritesBy(c) :
               /\ c_state[c] = "done"
               /\ write_log[i].value =
                      [t |-> "array",
                       items |-> NamesWithChanges(c, Len(c_files[c]))]

C15_Witness ==
    \E c, d \in Comparisons :
        /\ c /= d
        /\ \E i \in WritesBy(c) : write_log[i].value.items = << "a.py", "b.py" >>
        /\ c_probe[d].kind = "hit"
        /\ c_changed[d] = {"a.py", "b.py"}
        /\ c_state[d] = "done"
        /\ c_pos[d] = Len(c_files[d])
        /\ WritesBy(d) = {}


\* The file is in both reports with the same coverage on every line and has
\* no diff.
UnchangedFile ==
    /\ diff_data = None
    /\ base_file /= None
    /\ head_file = base_file

\* No line of the source starts with '+' or '-'.
PlainSource == \A i \in DOMAIN src : src[i] \notin {"+", "-"}

AddedFile(n) ==
    /\ base_file = None
    /\ orig_segments = << AddedHunk(n) >>
    /\ head_file = Some([i \in 1..n |-> "h"])

\* C17. For a newly added file of n lines the traversal is a pure head
\* traversal: base_ln stays at 0, it does not raise, and it finishes after
\* exactly n Line Comparisons, the i-th with base_ln absent, head_ln = i,
\* base coverage absent and head coverage hit.
C17_AddedFile ==
    \A n \in 1..(MaxHunkLines + 1) :
        AddedFile(n) =>
            /\ pc /= "raised"
            /\ n_pass >= 1 =>
                   /\ base_ln = 0
                   /\ head_ln = n_iter + 1
                   /\ Len(lines) = n_iter
                   /\ n_iter <= n
                   /\ \A i \in DOMAIN lines :
                          /\ lines[i].base_ln = None
                          /\ lines[i].head_ln = Some(i)
                          /\ lines[i].base_line = NoCov
                          /\ lines[i].head_line = "h"
                          /\ lines[i].value = "+"
            /\ (pc = "apply" /\ n_iter = n) => traverse_finished
            /\ PassFinished => n_iter = n

C17_Witness ==
    /\ AddedFile(MaxHunkLines + 1)
    /\ PassFinished
    /\ Len(lines) = MaxHunkLines + 1
    /\ lines[MaxHunkLines + 1].head_ln = Some(MaxHunkLines + 1)


\* ln lies in [offset, offset + length), an empty length counting as 1.
InHeaderRange(ln, offset, length) ==
    ln \in int(offset)..(int(offset) + (IF length = << >> THEN 1 ELSE int(length)) - 1)

\* The head of the segment queue is active at the pointers.
Active(segs, bln, hln) ==
    /\ segs /= << >>
    /\ \/ InHeaderRange(bln, segs[1].header[1], segs[1].header[2])
       \/ InHeaderRange(hln, segs[1].header[3], segs[1].header[4])

\* Some but not all lines of the head of the queue have been consumed.
PartlyConsumed ==
    /\ segments /= << >>
    /\ Len(segments[1].lines) <
           Len(orig_segments[Len(orig_segments) - Len(segments) + 1].lines)

\* The activation rule of traversing_diff: an iteration takes its value
\* from the head of the segment queue, and flags the event is_diff, exactly
\* when base_ln is in the segment's base range or head_ln is in its head
\* range (an empty length counting as 1), and never with an empty queue.
ActivationRule ==
    [][Iterated =>
        LET e == last_event'[1]
        IN  /\ e.from_segment <=> Active(segments, base_ln, head_ln)
            /\ e.is_diff <=> Active(segments, base_ln, head_ln)
            /\ segments = << >> => ~e.from_segment]_vars

\* C18. The head of the segment queue is active exactly when base_ln is in
\* its base range or head_ln is in its head range, so that a hunk stays
\* active until all of its lines are consumed: a hunk some of whose lines
\* were consumed, and whose other lines are pending, is active.
C18_StaysActive ==
    (/\ pc = "apply"
     /\ HunksOnly(orig_segments)
     /\ SortedNonOverlapping(orig_segments)
     /\ PartlyConsumed) => Active(segments, base_ln, head_ln)

\* The header string names line 0.
IsZero(offset) == offset = << 0 >>

\* C19. When apply starts, if segments exist base_ln is min(1, base offset
\* of the first segment) and head_ln is min(1, its head offset), that is 0
\* for an offset of 0 and 1 otherwise; without segments both start at 1.
C19_InitialPointers ==
    (pc = "apply" /\ n_iter = 0) =>
        IF orig_segments = << >>
        THEN base_ln = 1 /\ head_ln = 1
        ELSE /\ base_ln = (IF IsZero(orig_segments[1].header[1]) THEN 0 ELSE 1)
             /\ head_ln = (IF IsZero(orig_segments[1].header[3]) THEN 0 ELSE 1)

C19_Witness ==
    /\ pc = "apply" /\ n_iter = 0
    /\ orig_segments = << AddedHunk(MaxHunkLines) >>
    /\ base_ln = 0
    /\ head_ln = 1

\* C20. A coverage lookup at a line number that is absent or outside
\* 1..(number of lines of the report file), line number 0 included, yields
\* absent coverage: every Line Comparison made at such a number holds no
\* coverage line on that side.
C20_LookupOutOfRange ==
    \A i \in DOMAIN lines :
        /\ ~LineExists(base_file, lines[i].base_ln) => lines[i].base_line = NoCov
        /\ ~LineExists(head_file, lines[i].head_ln) => lines[i].head_line = NoCov

\* C21. Every Line Comparison of an added line (raw value starting with
\* '+') has the added flag, no base coverage and no base line number, and
\* every one of a removed line (raw value starting with '-') has the removed
\* flag, no head coverage and no head line number.
C21_AddedRemovedSides ==
    \A i \in DOMAIN lines :
        /\ lines[i].added <=> lines[i].value = "+"
        /\ lines[i].removed <=> lines[i].value = "-"
        /\ lines[i].value = "+" =>
               /\ coverage(lines[i]).base = None
               /\ number(lines[i]).base = None
        /\ lines[i].value = "-" =>
               /\ coverage(lines[i]).head = None
               /\ number(lines[i]).head = None

C21_Witness ==
    /\ PassFinished
    /\ \E i, j, k \in DOMAIN lines :
           /\ lines[i].value = "+" /\ coverage(lines[i]).head /= None
           /\ lines[j].value = "-" /\ coverage(lines[j]).base /= None
           /\ lines[k].value = "u" /\ coverage(lines[k]).base /= None
           /\ coverage(lines[k]).head /= None

\* The last property read was op and it returned a value.
Returned(op) == r_last.op = op /\ r_last.kind = "value"

\* The file of the base report under the given name.
BaseFileNamed(name) == Some([commit |-> "base", name |-> name])

\* C22. get_file_comparison finds the base file under the current name; if
\* the base report has none and the file has diff data, under the previous
\* name the diff metadata records; if that is absent too, or there is no
\* base report, the base side is absent.
C22_RenameFallback ==
    Returned("get_file_comparison") =>
        LET v == r_last.value
            renamed == /\ v.diff_data /= None
                       /\ v.diff_data[1].before /= None
                       /\ r_base_built /= None
                       /\ v.diff_data[1].before[1] \in r_base_built[1].files
        IN  /\ v.diff_data = (IF v.file_name = "a.py" THEN r_diff ELSE None)
            /\ v.base_file =
                   (IF r_base_built = None THEN None
                    ELSE IF v.file_name \in r_base_built[1].files
                         THEN BaseFileNamed(v.file_name)
                    ELSE IF renamed
                         THEN BaseFileNamed(v.diff_data[1].before[1])
                    ELSE None)

C22_Witness ==
    /\ Returned("get_file_comparison")
    /\ r_last.value.file_name = "a.py"
    /\ r_last.value.head_file /= None
    /\ r_last.value.base_file = BaseFileNamed("old.py")

\* C23. has_unmerged_base_commits is true if and only if the reverse diff's
\* commit list has more than one entry.
C23_UnmergedBaseCommits ==
    Returned("has_unmerged_base_commits") =>
        (r_last.value <=> r_rev_commits >= 2)

C23_Witness ==
    /\ Returned("has_unmerged_base_commits")
    /\ r_rev_commits = 1
    /\ r_last.value = FALSE
    /\ r_calls = MaxResolveCalls

\* C24. A missing report yields absent sub-objects and never makes the
\* Comparison's base_report, head_report, totals or get_file_comparison
\* (by which files is resolved) fail.
C24_MissingReportNotFatal ==
    /\ r_last.op \in {"base_report", "head_report", "totals", "get_file_comparison"} =>
           r_last.kind /= "raised"
    /\ (Returned("totals") /\ r_base_built = None) => r_last.value.base = None
    /\ (Returned("get_file_comparison") /\ r_base_built = None) =>
           r_last.value.base_file = None

\* C25. Where the Comparison's report exists, FlagComparison.head_report
\* and base_report are the flag-filtered sub-report of that report, absent
\* when the report has no data for the flag; diff_totals is absent if and
\* only if the head sub-report is absent and is otherwise the forward diff
\* applied to the head sub-report.
C25_FlagComparison ==
    /\ Returned("flag.head_report") =>
           r_last.value.sub =
               (IF r_last.value.flag \in r_head_built[1].flags
                THEN Some([commit |-> "head", flag |-> r_last.value.flag])
                ELSE None)
    /\ Returned("flag.base_report") =>
           r_last.value.sub =
               (IF r_last.value.flag \in r_base_built[1].flags
                THEN Some([commit |-> "base", flag |-> r_last.value.flag])
                ELSE None)
    /\ Returned("flag.diff_totals") =>
           /\ r_last.value.totals = None <=>
                  r_last.value.flag \notin r_head_built[1].flags
           /\ r_last.value.totals /= None =>
                  r_last.value.totals =
                      Some([of |-> [commit |-> "head", flag |-> r_last.value.flag],
                            diff |-> r_diff])

C25_Witness ==
    /\ Returned("flag.diff_totals")
    /\ r_last.value.flag = "unit"
    /\ r_last.value.totals /= None
    /\ r_diff /= None
    /\ r_base_built /= None /\ "unit" \notin r_base_built[1].flags

\* C26. For each produced line every registered visitor is called exactly
\* once, in registration order, with the same (base_ln, head_ln, value,
\* is_diff), built from the pointers as they are before the advance and
\* with the segment not yet retired; each visitor's result changes by that
\* one call.
C26_VisitorCalls ==
    [][Iterated =>
        LET e == last_event'[1]
            args == [base_ln |-> e.base_ln, head_ln |-> e.head_ln,
                     value |-> e.value, is_diff |-> e.is_diff]
        IN  /\ e.calls =
                   << [visitor |-> "change_summary_visitor"] @@ args,
                      [visitor |-> "create_lines_visitor"] @@ args >>
            /\ e.base_ln \in {None, Some(base_ln)}
            /\ e.head_ln \in {None, Some(head_ln)}
            /\ (e.base_ln /= None \/ e.head_ln /= None)
            /\ (e.is_diff <=> traversing_diff(segments, base_ln, head_ln))
            /\ summary' = ChangeSummaryCall(summary, e.base_ln, e.head_ln,
                                            e.value, e.is_diff)
            /\ lines' = LineComparisonCall(lines, e.base_ln, e.head_ln,
                                           e.value, e.is_diff)]_vars

C26_Witness ==
    /\ pc = "apply"
    /\ last_event /= None
    /\ last_event[1].is_diff
    /\ last_event[1].value = "+"
    /\ last_event[1].at = << 3, 3 >>
    /\ Len(segments) < Len(orig_segments)
    /\ Len(last_event[1].calls) = 2

\* C27. The is_diff tag of every event tells whether its value was popped
\* from a segment's line buffer: true for every line taken from a segment,
\* the last line of a segment included, false for a line read from the full
\* source or a 'no line'.
C27_IsDiffTag ==
    last_event /= None =>
        /\ (last_event[1].is_diff <=> last_event[1].from_segment)
        /\ (last_event[1].value = NoLine => ~last_event[1].is_diff)

C27_Witness ==
    /\ last_event /= None
    /\ last_event[1].is_diff
    /\ orig_segments /= << >>
    /\ segments = << >>
    /\ src /= << >>
    /\ popped = ConcatLines(orig_segments)

\* The segments left are the last ones of the original list, the first of
\* them without the lines already taken.
IsSuffixOfOriginal ==
    LET d == Len(orig_segments) - Len(segments)
    IN  /\ d >= 0
        /\ \A i \in DOMAIN segments :
               /\ segments[i].header = orig_segments[d + i].header
               /\ i > 1 => segments[i] = orig_segments[d + i]

\* C28. During a traversal base_ln and head_ln never decrease; every
\* iteration moves at least one of them by exactly 1 and none by more; the
\* segments are retired from the front of the queue, in their order.
C28_Monotonic ==
    [][pc = "apply" =>
            /\ base_ln' >= base_ln /\ head_ln' >= head_ln
            /\ Iterated =>
                   /\ base_ln' - base_ln \in {0, 1}
                   /\ head_ln' - head_ln \in {0, 1}
                   /\ base_ln' + head_ln' > base_ln + head_ln
                   /\ \/ segments' = segments
                      \/ /\ segments /= << >>
                         /\ Len(segments') = Len(segments)
                         /\ Tail(segments') = Tail(segments)
                      \/ /\ segments /= << >>
                         /\ segments' = Tail(segments)
            /\ IsSuffixOfOriginal'
            /\ Len(segments') <= Len(segments)]_vars

C28_Witness ==
    /\ pc = "apply"
    /\ Len(orig_segments) = 2
    /\ Len(segments) = 1
    /\ segments[1] = orig_segments[2]
    /\ base_ln > head_ln
    /\ head_ln >= 2

\* The Line Comparisons made so far that carry a head line number.
HeadNumbered == SelectSeq(lines, LAMBDA lc : lc.head_ln /= None)

\* The segments are hunks in ascending order that fit the full source.
WellFormedFor(segs, source) ==
    /\ HunksOnly(segs)
    /\ SortedNonOverlapping(segs)
    /\ ImpliedHeadLen(segs) <= Len(source)

\* C29. With full head source and well-formed segments the events that
\* carry a head_ln carry 1, 2, ..., len(src), each once and in increasing
\* order; every event produced outside an active segment has the raw value
\* src[head_ln - 1]; the traversal has finished exactly when no segment
\* remains and head_ln exceeds len(src).
C29_FullSourceOrder ==
    (src /= << >> /\ WellFormedFor(orig_segments, src) /\ n_pass >= 1) =>
        /\ \A i \in DOMAIN HeadNumbered : HeadNumbered[i].head_ln = Some(i)
        /\ Len(HeadNumbered) <= Len(src)
        /\ \A i \in DOMAIN lines :
               ~lines[i].is_diff =>
                   /\ lines[i].head_ln /= None
                   /\ lines[i].head_ln[1] \in DOMAIN src
                   /\ lines[i].value = src[lines[i].head_ln[1]]
        /\ PassFinished =>
               /\ Len(HeadNumbered) = Len(src)
               /\ head_ln = Len(src) + 1
        /\ pc /= "raised"
        /\ n_iter <= TotalLines(orig_segments) + Len(src)

\* C30. Resolving a File Comparison leaves the memoized diff document as
\* it was: a second File Comparison built for the same file from the same
\* Comparison has the same diff data, the same total diff length, and, once
\* resolved, the same lines and the same change_summary as the first.
C30_SameResultTwice ==
    fc_first /= None =>
        /\ Held.diff_data = fc_first[1].diff_data
        /\ total_diff_length = fc_first[1].total_diff_length
        /\ (cs_cache /= None /\ fc_first[1].change_summary /= None) =>
               cs_cache = fc_first[1].change_summary
        /\ (lines_cache /= None /\ fc_first[1].lines /= None) =>
               lines_cache = fc_first[1].lines

\* apply() has stopped with the IndexError of pop_line taking a line from
\* the empty line buffer of the segment at the head of the queue.
RaisedOnEmptySegment ==
    /\ pc = "raised"
    /\ SrcAssertion(head_file_eof)
    /\ segments /= << >>
    /\ segments[1].lines = << >>
    /\ traversing_diff(segments, base_ln, head_ln)

\* C31. A segment whose line buffer is empty when it reaches the head of
\* the queue contributes no event and is retired without error, wherever
\* its header window lies, also when base_ln or head_ln is inside it.
C31_EmptySegmentRetired ==
    /\ ~RaisedOnEmptySegment
    /\ (last_event /= None /\ last_event[1].from_segment) => popped /= << >>

\* C32. Over any sequence of reads of one Comparison the base report is
\* built from the report source at most once and the head report at most
\* once, whatever the report source returns, an absent report included.
C32_FetchedAtMostOnce ==
    /\ r_fetches.base <= 1
    /\ r_fetches.head <= 1

\* The step is the first evaluation of _calculated_changes_and_lines.
FirstEvaluation ==
    /\ calculated = None
    /\ pc = "idle"
    /\ n_reads' = n_reads + 1
    /\ calculated' /= None \/ pc' /= "idle"

Pending == (1..q_enqueued) \ q_ready

\* Caller p's call of is_refreshing returns in this step.
IsRefreshingReturns(p) ==
    /\ q_ret'[p] /= None
    /\ \/ q_pc[p] \in {"decode", "hdel"} /\ q_pc'[p] \notin {q_pc[p], "hdel"}
       \/ /\ q_pc[p] = "idle"
          /\ q_calls' = q_calls + 1
          /\ q_record = None
          /\ q_data'[p] = None
          /\ q_ret'[p] = Some(FALSE)

\* C34. trigger_refresh enqueues a task, and records it under the owner,
\* only when is_refreshing is false; when the recorded task is not ready it
\* enqueues nothing and leaves the record as it is, so that triggers made
\* one after another while a task is pending enqueue one task only.
C34_TriggerOnce ==
    [][/\ q_enqueued' /= q_enqueued =>
              /\ q_enqueued' = q_enqueued + 1
              /\ Pending = {}
              /\ \E p \in Callers :
                     /\ q_pc[p] = "refresh"
                     /\ q_op[p] = "trigger_refresh"
                     /\ q_ret[p] = Some(FALSE)
       /\ \A p \in Callers :
              (q_op[p] = "trigger_refresh" /\ q_pc[p] = "decode"
                    /\ q_data[p][1].kind = "task" /\ q_data[p][1].id \in Pending
                    /\ q_pc'[p] /= q_pc[p]) =>
                  /\ q_pc'[p] = "idle"
                  /\ q_enqueued' = q_enqueued
                  /\ q_record' = q_record
                  /\ q_record = q_data[p]
       /\ q_record' \notin {q_record, None} =>
              \E p \in Callers :
                  /\ q_pc[p] = "hset"
                  /\ q_task[p] = q_enqueued
                  /\ q_record' = Some(TaskRecord(q_task[p]))
       /\ Cardinality(Pending') <= 1]_vars

C34_Witness ==
    /\ q_calls = MaxRefreshCalls
    /\ \A p \in Callers : q_pc[p] = "idle" /\ q_op[p] = "trigger_refresh"
    /\ \E p \in Callers : q_ret[p] = Some(TRUE) /\ q_task[p] = 0
    /\ \E p \in Callers : q_task[p] = 2
    /\ Pending = {2}
    /\ q_record = Some(TaskRecord(2))

\* C35. is_refreshing returns true exactly when a record exists for the
\* owner and decodes to a task that is not ready, and then leaves the
\* record in place; for a record whose task is ready or that does not
\* decode it deletes the record and returns false; with no record it
\* returns false and changes nothing.
C35_IsRefreshing ==
    [][\A p \in Callers :
          IsRefreshingReturns(p) =>
              LET d == q_data'[p]
                  result == q_ret'[p][1]
              IN  /\ result <=> (/\ d /= None
                                 /\ d[1].kind = "task"
                                 /\ d[1].id \notin q_ready)
                  /\ result => (q_record' = q_record /\ q_record' = d)
                  /\ (~result /\ d /= None) => q_record' = None
                  /\ d = None => (q_record' = q_record /\ ~result)
                  /\ q_enqueued' = q_enqueued]_vars

C35_Witness ==
    \E p, q \in Callers :
        /\ q_op[p] = "is_refreshing" /\ q_pc[p] = "idle"
        /\ q_ret[p] = Some(FALSE)
        /\ q_data[p] /= None /\ q_data[p][1].kind = "not_a_tuple"
        /\ q_op[q] = "is_refreshing" /\ q_pc[q] = "idle"
        /\ q_ret[q] = Some(TRUE)
        /\ q_record = q_data[q]

\* C36. Under any interleaving of concurrent trigger_refresh calls for the
\* owner at most one enqueued refresh task is pending at a time, and, once
\* its trigger has recorded it, the record refers to that task.
C36_OnePendingTask ==
    /\ Cardinality(Pending) <= 1
    /\ \A t \in Pending :
           (\A p \in Callers : ~(q_pc[p] = "hset" /\ q_task[p] = t)) =>
               q_record = Some(TaskRecord(t))

=============================================================================
